---- MODULE Spec2Model ----
(***************************************************************************)
(* State-machine model of src/src/App.jsx: the App component's state, the  *)
(* rendered QR element behind qrRef, and the two asynchronous handlers     *)
(* handleDownload(format) and handleShare.                                 *)
(*                                                                         *)
(* JavaScript runs each handler to completion between awaits, so every     *)
(* action below is one run-to-completion slice of a handler: the trigger   *)
(* (up to the first await), or the continuation after one awaited promise  *)
(* settles (up to the next await, or to the end of the handler).           *)
(*                                                                         *)
(* Strings that the code builds by concatenation or case conversion are    *)
(* sequences of fragments, so that toLowerCase and the template literals   *)
(* are computed, not assumed.                                              *)
(***************************************************************************)
EXTENDS Naturals, Sequences, FiniteSets

VARIABLES text, size, fgColor, bgColor, level, includeMargin, darkMode,
          qrRef, navigatorShare, ops, edits

vars == <<text, size, fgColor, bgColor, level, includeMargin, darkMode,
          qrRef, navigatorShare, ops, edits>>

appState == <<text, size, fgColor, bgColor, level, includeMargin, darkMode, qrRef>>

----------------------------------------------------------------------------
(* Bound of the exploration: the number of user events (edits and clicks) *)

MaxEvents == 3

----------------------------------------------------------------------------
(* Values the user can enter *)

DefaultSize == 256

MinSize == 128

Texts == {"", "hi"}

Sizes == {MinSize, DefaultSize}

Colors == {"#000000", "#ffffff"}

Levels == {"L", "H"}

PNG == <<"P", "N", "G">>

SVG == <<"S", "V", "G">>

Formats == {PNG, SVG}

----------------------------------------------------------------------------
(* Pure helpers *)

ToLowerChar(c) ==
    CASE c = "P" -> "p"
      [] c = "N" -> "n"
      [] c = "G" -> "g"
      [] c = "S" -> "s"
      [] c = "V" -> "v"
      [] OTHER -> c

toLowerCase(s) == [i \in DOMAIN s |-> ToLowerChar(s[i])]

(* <QRCodeCanvas value={text || 'https://stackblitz.com'} size=... /> *)
QRCodeCanvas(t, s, l, m, fg, bg) ==
    [value |-> IF t = "" THEN "https://stackblitz.com" ELSE t,
     size |-> s, level |-> l, includeMargin |-> m, fgColor |-> fg, bgColor |-> bg]

(* The element qrRef.current holds after the component has rendered with the given state *)
Render(t, s, l, m, fg, bg) == [current |-> QRCodeCanvas(t, s, l, m, fg, bg)]

(* Faulty variant: the format test is dropped *)
SerializerAlwaysPng(format) == "toPng"

(* format === 'PNG' ? toPng : toSvg *)
Serializer(format) == IF format = PNG THEN "toPng" ELSE "toSvg"

(* The data URL a serializer resolves with: an image of the node it was handed *)
DataUrl(serializer, node) ==
    [mime |-> IF serializer = "toPng" THEN "image/png" ELSE "image/svg+xml",
     node |-> node]

Effect(type, name, data) == [type |-> type, name |-> name, data |-> data]

(* Faulty variant: the element of the first render, as a stale closure would hold it *)
StaleElement == QRCodeCanvas("", DefaultSize, "L", TRUE, "#000000", "#ffffff")

(* qrRef.current, the element a handler reads from the ref when it is triggered *)
CurrentElement == qrRef.current

(* The state of the component at the moment of a trigger *)
Snapshot == [text |-> text, size |-> size, level |-> level,
             includeMargin |-> includeMargin, fgColor |-> fgColor,
             bgColor |-> bgColor, darkMode |-> darkMode]

(* The user may still act *)
MoreEvents == Len(ops) + edits < MaxEvents

Pending(o) == o.pc # "done"

PendingOps == {i \in DOMAIN ops : Pending(ops[i])}

----------------------------------------------------------------------------
Init ==
    /\ text = ""
    /\ size = DefaultSize
    /\ fgColor = "#000000"
    /\ bgColor = "#ffffff"
    /\ level = "L"
    /\ includeMargin = TRUE
    /\ darkMode = FALSE
    /\ qrRef = Render("", DefaultSize, "L", TRUE, "#000000", "#ffffff")
    /\ navigatorShare \in BOOLEAN
    /\ ops = <<>>
    /\ edits = 0

----------------------------------------------------------------------------
(* User edits: a state setter followed by the re-render it causes *)

Rerender == qrRef' = Render(text', size', level', includeMargin', fgColor', bgColor')

setText(v) ==
    /\ MoreEvents /\ v # text
    /\ text' = v
    /\ UNCHANGED <<size, fgColor, bgColor, level, includeMargin, darkMode>>
    /\ Rerender
    /\ edits' = edits + 1
    /\ UNCHANGED <<navigatorShare, ops>>

setSize(v) ==
    /\ MoreEvents /\ v # size
    /\ size' = v
    /\ UNCHANGED <<text, fgColor, bgColor, level, includeMargin, darkMode>>
    /\ Rerender
    /\ edits' = edits + 1
    /\ UNCHANGED <<navigatorShare, ops>>

setFgColor(v) ==
    /\ MoreEvents /\ v # fgColor
    /\ fgColor' = v
    /\ UNCHANGED <<text, size, bgColor, level, includeMargin, darkMode>>
    /\ Rerender
    /\ edits' = edits + 1
    /\ UNCHANGED <<navigatorShare, ops>>

setBgColor(v) ==
    /\ MoreEvents /\ v # bgColor
    /\ bgColor' = v
    /\ UNCHANGED <<text, size, fgColor, level, includeMargin, darkMode>>
    /\ Rerender
    /\ edits' = edits + 1
    /\ UNCHANGED <<navigatorShare, ops>>

setLevel(v) ==
    /\ MoreEvents /\ v # level
    /\ level' = v
    /\ UNCHANGED <<text, size, fgColor, bgColor, includeMargin, darkMode>>
    /\ Rerender
    /\ edits' = edits + 1
    /\ UNCHANGED <<navigatorShare, ops>>

setIncludeMargin(v) ==
    /\ MoreEvents /\ v # includeMargin
    /\ includeMargin' = v
    /\ UNCHANGED <<text, size, fgColor, bgColor, level, darkMode>>
    /\ Rerender
    /\ edits' = edits + 1
    /\ UNCHANGED <<navigatorShare, ops>>

setDarkMode(v) ==
    /\ MoreEvents /\ v # darkMode
    /\ darkMode' = v
    /\ UNCHANGED <<text, size, fgColor, bgColor, level, includeMargin>>
    /\ Rerender
    /\ edits' = edits + 1
    /\ UNCHANGED <<navigatorShare, ops>>

----------------------------------------------------------------------------
(* Triggers *)

NewOp(handler, format, serializer) ==
    [handler |-> handler,
     format |-> format,
     pc |-> serializer,
     element |-> CurrentElement,
     dataUrl |-> <<>>,
     effects |-> <<Effect(serializer, <<>>, <<CurrentElement>>)>>,
     failedAt |-> "",
     triggeredWith |-> Snapshot,
     overlaps |-> PendingOps]

handleDownload(format) ==
    /\ MoreEvents
    /\ ops' = Append(ops, NewOp("handleDownload", format, Serializer(format)))
    /\ UNCHANGED <<appState, navigatorShare, edits>>

handleShare ==
    /\ MoreEvents
    /\ ops' = Append(ops, NewOp("handleShare", <<>>, "toPng"))
    /\ UNCHANGED <<appState, navigatorShare, edits>>

----------------------------------------------------------------------------
(* handleDownload: continuation after the serializer settles *)

SetOp(i, o) == ops' = [ops EXCEPT ![i] = o]

Awaiting(i, handler, what) ==
    /\ i \in DOMAIN ops
    /\ ops[i].handler = handler
    /\ ops[i].pc \in what

(* Faulty variant: one link shared by all invocations, holding the latest trigger's values *)
SharedLink(o, dataUrl) ==
    Effect("link.click",
           <<"qr-code.">> \o toLowerCase(ops[Len(ops)].format),
           <<DataUrl(Serializer(ops[Len(ops)].format), ops[Len(ops)].element)>>)

(* link.download = `qr-code.${format.toLowerCase()}`; link.href = dataUrl; link.click() *)
DownloadLink(o, dataUrl) ==
    Effect("link.click", <<"qr-code.">> \o toLowerCase(o.format), <<dataUrl>>)

(* Faulty variant: the success toast is emitted before the save *)
ToastBeforeSave(o, dataUrl) ==
    <<Effect("toast.success", <<"Downloaded as ">> \o o.format, <<>>),
      DownloadLink(o, dataUrl)>>

(* the try block after the await: the file save, then toast.success *)
DownloadSuccess(o, dataUrl) ==
    <<DownloadLink(o, dataUrl),
      Effect("toast.success", <<"Downloaded as ">> \o o.format, <<>>)>>

(* Faulty variant: the catch block swallows the error silently *)
DownloadSwallowed == <<>>

(* catch (err) { toast.error('Download failed') } *)
DownloadFailure == <<Effect("toast.error", <<"Download failed">>, <<>>)>>

(* catch (err) { toast.error('Sharing failed') } *)
ShareFailure == <<Effect("toast.error", <<"Sharing failed">>, <<>>)>>

(* Faulty variant: the handler clears the text field after a download *)
DownloadResolvedResetting(i) ==
    /\ Awaiting(i, "handleDownload", {"toPng", "toSvg"})
    /\ LET o == ops[i]
           dataUrl == DataUrl(o.pc, o.element)
       IN SetOp(i, [o EXCEPT !.pc = "done",
                             !.dataUrl = <<dataUrl>>,
                             !.effects = @ \o DownloadSuccess(o, dataUrl)])
    /\ text' = ""
    /\ qrRef' = Render("", size, level, includeMargin, fgColor, bgColor)
    /\ UNCHANGED <<size, fgColor, bgColor, level, includeMargin, darkMode,
                   navigatorShare, edits>>

(* the serializer resolved: lines 23-28 run to the end of the handler *)
DownloadResolved(i) ==
    /\ Awaiting(i, "handleDownload", {"toPng", "toSvg"})
    /\ LET o == ops[i]
           dataUrl == DataUrl(o.pc, o.element)
       IN SetOp(i, [o EXCEPT !.pc = "done",
                             !.dataUrl = <<dataUrl>>,
                             !.effects = @ \o DownloadSuccess(o, dataUrl)])
    /\ UNCHANGED <<appState, navigatorShare, edits>>

(* Faulty variant: the catch block calls the serializer again before giving up *)
DownloadRejectedRetrying(i) ==
    /\ Awaiting(i, "handleDownload", {"toPng", "toSvg"})
    /\ LET o == ops[i]
       IN SetOp(i, [o EXCEPT !.pc = "done",
                             !.failedAt = o.pc,
                             !.effects = @ \o <<Effect(o.pc, <<>>, <<CurrentElement>>)>>
                                           \o DownloadFailure])
    /\ UNCHANGED <<appState, navigatorShare, edits>>

(* the serializer rejected: the catch block runs *)
DownloadRejected(i) ==
    /\ Awaiting(i, "handleDownload", {"toPng", "toSvg"})
    /\ LET o == ops[i]
       IN SetOp(i, [o EXCEPT !.pc = "done",
                             !.failedAt = o.pc,
                             !.effects = @ \o DownloadFailure])
    /\ UNCHANGED <<appState, navigatorShare, edits>>

----------------------------------------------------------------------------
(* handleShare: continuations *)

(* toPng resolved: fetch(dataUrl) is called and awaited *)
ShareSerialized(i) ==
    /\ Awaiting(i, "handleShare", {"toPng"})
    /\ LET o == ops[i]
           dataUrl == DataUrl("toPng", o.element)
       IN SetOp(i, [o EXCEPT !.pc = "fetch",
                             !.dataUrl = <<dataUrl>>,
                             !.effects = @ \o <<Effect("fetch", <<>>, <<dataUrl>>)>>])
    /\ UNCHANGED <<appState, navigatorShare, edits>>

(* fetch resolved: response.blob() is called and awaited *)
ShareFetched(i) ==
    /\ Awaiting(i, "handleShare", {"fetch"})
    /\ SetOp(i, [ops[i] EXCEPT !.pc = "blob"])
    /\ UNCHANGED <<appState, navigatorShare, edits>>

(* Faulty variant: a missing navigator.share ends the handler without a notification *)
ShareUnsupportedSilent(o, supported) ==
    IF supported
    THEN [o EXCEPT !.pc = "navigator.share",
                   !.effects = @ \o <<Effect("new File", <<"qr-code.png">>, o.dataUrl),
                                      Effect("navigator.share", <<"qr-code.png">>, o.dataUrl)>>]
    ELSE [o EXCEPT !.pc = "done",
                   !.effects = @ \o <<Effect("new File", <<"qr-code.png">>, o.dataUrl)>>]

(* Faulty variant: navigator.share is called without the capability test *)
ShareUnguarded(o, supported) ==
    [o EXCEPT !.pc = "navigator.share",
              !.effects = @ \o <<Effect("new File", <<"qr-code.png">>, o.dataUrl),
                                 Effect("navigator.share", <<"qr-code.png">>, o.dataUrl)>>]

(* Lines 38-48, after blob() resolved: new File(...), then the capability test *)
ShareOrThrow(o, supported) ==
    IF supported
    THEN [o EXCEPT !.pc = "navigator.share",
                   !.effects = @ \o <<Effect("new File", <<"qr-code.png">>, o.dataUrl),
                                      Effect("navigator.share", <<"qr-code.png">>, o.dataUrl)>>]
    ELSE [o EXCEPT !.pc = "done",
                   !.failedAt = "unsupported",
                   !.effects = @ \o <<Effect("new File", <<"qr-code.png">>, o.dataUrl)>>
                                 \o ShareFailure]

ShareBlobbed(i) ==
    /\ Awaiting(i, "handleShare", {"blob"})
    /\ SetOp(i, ShareOrThrow(ops[i], navigatorShare))
    /\ UNCHANGED <<appState, navigatorShare, edits>>

(* navigator.share resolved: the try block ends, nothing else runs *)
ShareResolved(i) ==
    /\ Awaiting(i, "handleShare", {"navigator.share"})
    /\ SetOp(i, [ops[i] EXCEPT !.pc = "done"])
    /\ UNCHANGED <<appState, navigatorShare, edits>>

(* any awaited promise of handleShare rejected: the catch block runs *)
ShareRejected(i) ==
    /\ Awaiting(i, "handleShare", {"toPng", "fetch", "blob", "navigator.share"})
    /\ LET o == ops[i]
       IN SetOp(i, [o EXCEPT !.pc = "done",
                             !.failedAt = o.pc,
                             !.effects = @ \o ShareFailure])
    /\ UNCHANGED <<appState, navigatorShare, edits>>

----------------------------------------------------------------------------
Edit ==
    \/ \E v \in Texts : setText(v)
    \/ \E v \in Sizes : setSize(v)
    \/ \E v \in Colors : setFgColor(v)
    \/ \E v \in Colors : setBgColor(v)
    \/ \E v \in Levels : setLevel(v)
    \/ \E v \in BOOLEAN : setIncludeMargin(v)
    \/ \E v \in BOOLEAN : setDarkMode(v)

HandlerStep ==
    \/ \E f \in Formats : handleDownload(f)
    \/ handleShare
    \/ \E i \in DOMAIN ops : DownloadResolved(i)
    \/ \E i \in DOMAIN ops : DownloadRejected(i)
    \/ \E i \in DOMAIN ops : ShareSerialized(i)
    \/ \E i \in DOMAIN ops : ShareFetched(i)
    \/ \E i \in DOMAIN ops : ShareBlobbed(i)
    \/ \E i \in DOMAIN ops : ShareResolved(i)
    \/ \E i \in DOMAIN ops : ShareRejected(i)

Next ==
    \/ \E v \in Texts : setText(v)
    \/ \E v \in Sizes : setSize(v)
    \/ \E v \in Colors : setFgColor(v)
    \/ \E v \in Colors : setBgColor(v)
    \/ \E v \in Levels : setLevel(v)
    \/ \E v \in BOOLEAN : setIncludeMargin(v)
    \/ \E v \in BOOLEAN : setDarkMode(v)
    \/ \E f \in Formats : handleDownload(f)
    \/ handleShare
    \/ \E i \in DOMAIN ops : DownloadResolved(i)
    \/ \E i \in DOMAIN ops : DownloadRejected(i)
    \/ \E i \in DOMAIN ops : ShareSerialized(i)
    \/ \E i \in DOMAIN ops : ShareFetched(i)
    \/ \E i \in DOMAIN ops : ShareBlobbed(i)
    \/ \E i \in DOMAIN ops : ShareResolved(i)
    \/ \E i \in DOMAIN ops : ShareRejected(i)

Spec == Init /\ [][Next]_vars

----------------------------------------------------------------------------
TypeOK ==
    /\ text \in Texts /\ size \in Sizes /\ level \in Levels
    /\ fgColor \in Colors /\ bgColor \in Colors
    /\ includeMargin \in BOOLEAN /\ darkMode \in BOOLEAN
    /\ navigatorShare \in BOOLEAN
    /\ Len(ops) + edits <= MaxEvents

----------------------------------------------------------------------------
(* Vocabulary of the properties *)

Done(o) == o.pc = "done"

Count(o, types) == Cardinality({k \in DOMAIN o.effects : o.effects[k].type \in types})

Toasts == {"toast.success", "toast.error"}

Serializers == {"toPng", "toSvg"}

IsDownload(o) == o.handler = "handleDownload"

IsShare(o) == o.handler = "handleShare"

Succeeded(o) == Done(o) /\ o.failedAt = ""

Failed(o) == Done(o) /\ o.failedAt # ""

(* What a download in format f is expected to save and announce *)
ExpectedFileName(f) ==
    IF f = PNG THEN <<"qr-code.", "p", "n", "g">> ELSE <<"qr-code.", "s", "v", "g">>

ExpectedMessage(f) ==
    IF f = PNG THEN <<"Downloaded as ", "P", "N", "G">>
               ELSE <<"Downloaded as ", "S", "V", "G">>

ExpectedMime(f) == IF f = PNG THEN "image/png" ELSE "image/svg+xml"

ExpectedCall(f) == IF f = PNG THEN "toPng" ELSE "toSvg"

(* The element the component shows for a given state *)
ExpectedElement(st) ==
    [value |-> IF st.text = "" THEN "https://stackblitz.com" ELSE st.text,
     size |-> st.size, level |-> st.level, includeMargin |-> st.includeMargin,
     fgColor |-> st.fgColor, bgColor |-> st.bgColor]

----------------------------------------------------------------------------
(* C1: every finished export or share attempt has emitted exactly one
   notification, a success one if the attempt succeeded and a failure one if
   it failed; in particular a handleShare whose serialization, conversion and
   navigator.share call all succeeded has emitted a success notification. *)
C1_EveryAttemptNotified ==
    \A i \in DOMAIN ops :
        Done(ops[i]) =>
            /\ Count(ops[i], Toasts) = 1
            /\ (ops[i].failedAt = "") = (Count(ops[i], {"toast.success"}) = 1)

----------------------------------------------------------------------------
(* C2: whenever the serializer (toPng/toSvg) fails inside handleDownload or
   handleShare, the operation is over, has emitted exactly one failure
   notification and no success notification, has triggered no file download
   and has made no navigator.share call. *)
C2_SerializerFailureContained ==
    \A i \in DOMAIN ops :
        ops[i].failedAt \in Serializers =>
            /\ Done(ops[i])
            /\ Count(ops[i], {"toast.error"}) = 1
            /\ Count(ops[i], {"toast.success"}) = 0
            /\ Count(ops[i], {"link.click"}) = 0
            /\ Count(ops[i], {"navigator.share", "fetch", "new File"}) = 0

C2_Witness ==
    /\ \E i \in DOMAIN ops : IsDownload(ops[i]) /\ ops[i].failedAt \in Serializers
    /\ \E i \in DOMAIN ops : IsShare(ops[i]) /\ ops[i].failedAt = "toPng"

----------------------------------------------------------------------------
(* C3: when navigator.share is absent, every handleShare that has ended,
   whatever the outcome of serialization, has emitted exactly one failure
   notification, no success notification, and has triggered no download. *)
C3_NoShareSupportAlwaysFails ==
    ~navigatorShare =>
        \A i \in DOMAIN ops :
            (IsShare(ops[i]) /\ Done(ops[i])) =>
                /\ Count(ops[i], {"toast.error"}) = 1
                /\ Count(ops[i], {"toast.success"}) = 0
                /\ Count(ops[i], {"link.click"}) = 0
                /\ ops[i].failedAt # ""

C3_Witness ==
    /\ ~navigatorShare
    /\ \E i \in DOMAIN ops : IsShare(ops[i]) /\ Done(ops[i]) /\ ops[i].failedAt = "unsupported"
    /\ \E i \in DOMAIN ops : IsShare(ops[i]) /\ Done(ops[i]) /\ ops[i].failedAt = "toPng"

----------------------------------------------------------------------------
(* C4 as stated: when navigator.share is absent, handleShare creates no file
   object and no download artefact. *)
C4_NoFileObjectCreated ==
    ~navigatorShare =>
        \A i \in DOMAIN ops :
            IsShare(ops[i]) => Count(ops[i], {"new File", "link.click"}) = 0

(* C4 as amended: when navigator.share is absent, handleShare triggers no
   download and hands no file to a share call; a handleShare that got as far
   as the capability test has constructed exactly one File object
   (qr-code.png) and then emitted exactly one failure notification, and one
   that failed earlier has constructed none. *)
C4_NoFileDelivered ==
    ~navigatorShare =>
        \A i \in DOMAIN ops :
            IsShare(ops[i]) =>
                LET o == ops[i] IN
                /\ Count(o, {"link.click", "navigator.share"}) = 0
                /\ o.failedAt = "unsupported" =>
                      /\ Done(o)
                      /\ Count(o, {"new File"}) = 1
                      /\ Count(o, {"toast.error"}) = 1
                      /\ o.effects[Len(o.effects) - 1]
                            = Effect("new File", <<"qr-code.png">>, o.dataUrl)
                      /\ o.effects[Len(o.effects)].type = "toast.error"
                /\ o.failedAt # "unsupported" => Count(o, {"new File"}) = 0

C4_Witness ==
    /\ ~navigatorShare
    /\ \E i \in DOMAIN ops :
          /\ IsShare(ops[i]) /\ ops[i].failedAt = "unsupported"
          /\ Count(ops[i], {"new File"}) = 1
    /\ \E i \in DOMAIN ops :
          /\ IsShare(ops[i]) /\ Failed(ops[i]) /\ ops[i].failedAt = "fetch"

----------------------------------------------------------------------------
(* C5: handleDownload('PNG') calls only toPng and names the file qr-code.png;
   handleDownload('SVG') calls only toSvg and names the file qr-code.svg; the
   two names differ and neither format calls the other's serializer. *)
C5_FormatDispatch ==
    /\ ExpectedFileName(PNG) # ExpectedFileName(SVG)
    /\ \A i \in DOMAIN ops :
          IsDownload(ops[i]) =>
              LET o == ops[i] IN
              /\ o.format \in Formats
              /\ Count(o, Serializers \ {ExpectedCall(o.format)}) = 0
              /\ Count(o, {ExpectedCall(o.format)}) = 1
              /\ \A k \in DOMAIN o.effects :
                    o.effects[k].type = "link.click" =>
                        o.effects[k].name = ExpectedFileName(o.format)

C5_Witness ==
    /\ text = "hi"
    /\ \E i \in DOMAIN ops :
          /\ IsDownload(ops[i]) /\ ops[i].format = PNG
          /\ Count(ops[i], {"link.click"}) = 1
    /\ \E i \in DOMAIN ops :
          /\ IsDownload(ops[i]) /\ ops[i].format = SVG
          /\ Count(ops[i], {"link.click"}) = 1

----------------------------------------------------------------------------
(* C6: of two handleDownload invocations the second of which was triggered
   while the first was still suspended, each one that has completed shows
   exactly its own outcome: on success one file save with its own format's
   name and its own serializer's data, then its own success message; on
   failure one failure notification and no file save. *)
OwnOutcome(o) ==
    IF o.failedAt = ""
    THEN o.effects =
            <<Effect(ExpectedCall(o.format), <<>>, <<o.element>>),
              Effect("link.click", ExpectedFileName(o.format),
                     <<[mime |-> ExpectedMime(o.format), node |-> o.element]>>),
              Effect("toast.success", ExpectedMessage(o.format), <<>>)>>
    ELSE o.effects =
            <<Effect(ExpectedCall(o.format), <<>>, <<o.element>>),
              Effect("toast.error", <<"Download failed">>, <<>>)>>

C6_ConcurrentDownloadsIndependent ==
    \A i, j \in DOMAIN ops :
        (IsDownload(ops[i]) /\ IsDownload(ops[j]) /\ i \in ops[j].overlaps) =>
            /\ Done(ops[i]) => OwnOutcome(ops[i])
            /\ Done(ops[j]) => OwnOutcome(ops[j])

C6_Witness ==
    \E i, j \in DOMAIN ops :
        /\ IsDownload(ops[i]) /\ IsDownload(ops[j]) /\ i \in ops[j].overlaps
        /\ ops[i].format # ops[j].format
        /\ Succeeded(ops[i]) /\ Failed(ops[j])

----------------------------------------------------------------------------
(* C7: the rendered element always reflects the current encoding parameters,
   and the element every operation handed to its serializer is the element
   that reflected the parameters in force when the operation was triggered,
   also when parameters were edited while an earlier operation was pending. *)
C7_CurrentElementAtTrigger ==
    /\ qrRef.current = ExpectedElement(Snapshot)
    /\ \A i \in DOMAIN ops :
          /\ ops[i].element = ExpectedElement(ops[i].triggeredWith)
          /\ ops[i].effects[1].type \in Serializers
          /\ ops[i].effects[1].data = <<ExpectedElement(ops[i].triggeredWith)>>

C7_Witness ==
    \E i, j \in DOMAIN ops :
        /\ i < j
        /\ Pending(ops[i]) /\ ops[i].element # qrRef.current
        /\ ops[j].element = qrRef.current
        /\ i \in ops[j].overlaps

----------------------------------------------------------------------------
(* C8: a handleDownload(format) whose serialization succeeded has triggered
   exactly one file save named qr-code.<format in lower case> and then emitted
   exactly one success notification "Downloaded as <format>", the save before
   the notification, and no failure notification; no download ever shows a
   success notification that is not preceded by its file save. *)
C8_SaveThenSuccess ==
    \A i \in DOMAIN ops :
        IsDownload(ops[i]) =>
            LET o == ops[i] IN
            /\ Succeeded(o) =>
                  /\ Count(o, {"link.click"}) = 1
                  /\ Count(o, {"toast.success"}) = 1
                  /\ Count(o, {"toast.error"}) = 0
                  /\ \E k \in DOMAIN o.effects :
                        /\ o.effects[k].type = "link.click"
                        /\ o.effects[k].name = ExpectedFileName(o.format)
                  /\ \E k \in DOMAIN o.effects :
                        /\ o.effects[k].type = "toast.success"
                        /\ o.effects[k].name = ExpectedMessage(o.format)
            /\ \A k \in DOMAIN o.effects :
                  o.effects[k].type = "toast.success" =>
                      \E m \in 1..(k - 1) : o.effects[m].type = "link.click"

C8_Witness ==
    \E i \in DOMAIN ops :
        /\ IsDownload(ops[i]) /\ ops[i].format = PNG /\ Succeeded(ops[i])
        /\ ops[i].effects[2].name = <<"qr-code.", "p", "n", "g">>
        /\ ops[i].effects[3].name = <<"Downloaded as ", "P", "N", "G">>

----------------------------------------------------------------------------
(* C9: no step of handleDownload or handleShare, on success or on failure,
   changes text, size, fgColor, bgColor, level, includeMargin, darkMode or the
   rendered element; these change only in a user edit. *)
C9_HandlersChangeNoState ==
    [][/\ HandlerStep => UNCHANGED appState
       /\ (appState' # appState) => Edit]_vars

C9_Witness ==
    /\ text = "hi"
    /\ \E i \in DOMAIN ops :
          Pending(ops[i]) /\ ops[i].triggeredWith # Snapshot
    /\ \E j \in DOMAIN ops :
          IsDownload(ops[j]) /\ Succeeded(ops[j]) /\ ops[j].triggeredWith = Snapshot

----------------------------------------------------------------------------
(* C10: every trigger of handleDownload or handleShare causes exactly one
   serializer invocation, made at the trigger on the element current then, so
   serializer calls never outnumber triggers; a failed operation leaves no
   mark on a later one. *)
C10_OneSerializerCallPerTrigger ==
    \A i \in DOMAIN ops :
        /\ Count(ops[i], Serializers) = 1
        /\ ops[i].effects[1].type \in Serializers
        /\ ops[i].effects[1].data = <<ops[i].element>>
        /\ (IsDownload(ops[i]) /\ Done(ops[i])) => OwnOutcome(ops[i])

C10_Witness ==
    \E i, j \in DOMAIN ops :
        /\ i < j /\ i \notin ops[j].overlaps
        /\ ops[i].handler = ops[j].handler /\ ops[i].format = ops[j].format
        /\ Failed(ops[i]) /\ ops[i].failedAt \in Serializers
        /\ Succeeded(ops[j])

====
